---- MODULE Spec2Model ----
(***************************************************************************)
(* Model of bin/check_samplesheet.py: check_samplesheet(file_in, file_out,  *)
(* input_format) and print_error.  Text is modelled as sequences of one-    *)
(* character strings, so that strip, replace, endswith, split and join are  *)
(* computed as the script computes them.                                    *)
(***************************************************************************)
EXTENDS Naturals, Sequences, FiniteSets

VARIABLES
    input_format,        \* the INPUT_FORMAT argument
    header_line,         \* first line of file_in, "\n" included
    lines,               \* the remaining lines of file_in, each with its "\n"
    pc,                  \* position in check_samplesheet
    i,                   \* number of data lines taken from fin so far
    header_read,         \* fin.readline() has been called
    sample_mapping_dict, \* sample -> list of sample_info
    s,                   \* number of samples of sorted(keys) written so far
    file_exists,         \* file_out has been created by open(file_out, "w")
    fout,                \* the lines written to file_out (without their "\n")
    printed,             \* what print_error / print wrote before sys.exit(1)
    err_line             \* index in lines of the line that raised the error, 0 if none

vars == <<input_format, header_line, lines, pc, i, header_read,
          sample_mapping_dict, s, file_exists, fout, printed, err_line>>

(***************************************************************************)
(* Bounds of the model.                                                    *)
(***************************************************************************)
MaxRows == 3

(***************************************************************************)
(* Characters and strings.                                                 *)
(***************************************************************************)
SPACE == " "
QUOTE == "\""
COMMA == ","
NEWLINE == "\n"

\* ord(c) of the characters the inputs use
CharCode(c) ==
    CASE c = "\n" -> 10
      [] c = " " -> 32
      [] c = "\"" -> 34
      [] c = "," -> 44
      [] c = "." -> 46
      [] c = "0" -> 48
      [] c = "1" -> 49
      [] c = "2" -> 50
      [] c = "3" -> 51
      [] c = "4" -> 52
      [] c = "5" -> 53
      [] c = "6" -> 54
      [] c = "7" -> 55
      [] c = "8" -> 56
      [] c = "9" -> 57
      [] c = "A" -> 65
      [] c = "B" -> 66
      [] c = "T" -> 84
      [] c = "_" -> 95
      [] c = "a" -> 97
      [] c = "b" -> 98
      [] c = "e" -> 101
      [] c = "f" -> 102
      [] c = "g" -> 103
      [] c = "l" -> 108
      [] c = "m" -> 109
      [] c = "p" -> 112
      [] c = "q" -> 113
      [] c = "s" -> 115
      [] c = "t" -> 116
      [] c = "x" -> 120
      [] c = "z" -> 122

WHITESPACE == {SPACE, NEWLINE}

\* str.strip(chars): drop leading and trailing characters of the set
RECURSIVE LStrip(_, _)
LStrip(str, chars) ==
    IF str # <<>> /\ Head(str) \in chars THEN LStrip(Tail(str), chars) ELSE str

RECURSIVE RStrip(_, _)
RStrip(str, chars) ==
    IF str # <<>> /\ str[Len(str)] \in chars
    THEN RStrip(SubSeq(str, 1, Len(str) - 1), chars)
    ELSE str

Strip(str, chars) == RStrip(LStrip(str, chars), chars)

\* str.replace(" ", "_")
ReplaceSpaces(str) == [k \in 1..Len(str) |-> IF str[k] = SPACE THEN "_" ELSE str[k]]

\* str.find(" ") != -1
ContainsSpace(str) == \E k \in 1..Len(str) : str[k] = SPACE

\* str.endswith(suffix)
EndsWith(str, suffix) ==
    /\ Len(str) >= Len(suffix)
    /\ SubSeq(str, Len(str) - Len(suffix) + 1, Len(str)) = suffix

\* ",".join(fields)
RECURSIVE Join(_)
Join(fields) ==
    IF fields = <<>> THEN <<>>
    ELSE IF Len(fields) = 1 THEN fields[1]
    ELSE fields[1] \o <<COMMA>> \o Join(Tail(fields))

\* "{}".format(n) for a natural number
Digit(d) == CASE d = 0 -> "0" [] d = 1 -> "1" [] d = 2 -> "2" [] d = 3 -> "3"
              [] d = 4 -> "4" [] d = 5 -> "5" [] d = 6 -> "6" [] d = 7 -> "7"
              [] d = 8 -> "8" [] d = 9 -> "9"

RECURSIVE FormatInt(_)
FormatInt(n) == IF n < 10 THEN <<Digit(n)>> ELSE FormatInt(n \div 10) \o <<Digit(n % 10)>>

\* str < str of Python: lexicographic by code point
RECURSIVE StrLess(_, _)
StrLess(a, b) ==
    IF b = <<>> THEN FALSE
    ELSE IF a = <<>> THEN TRUE
    ELSE IF Head(a) # Head(b) THEN CharCode(Head(a)) < CharCode(Head(b))
    ELSE StrLess(Tail(a), Tail(b))

\* sorted(keys)
RECURSIVE Sorted(_)
Sorted(keys) ==
    IF keys = {} THEN <<>>
    ELSE LET least == CHOOSE k \in keys : \A o \in keys \ {k} : StrLess(k, o)
         IN  <<least>> \o Sorted(keys \ {least})

\* str.split(",")
RECURSIVE Split(_)
Split(str) ==
    IF \A k \in 1..Len(str) : str[k] # COMMA THEN <<str>>
    ELSE LET c == CHOOSE k \in 1..Len(str) :
                      str[k] = COMMA /\ \A j \in 1..(k - 1) : str[j] # COMMA
         IN  <<SubSeq(str, 1, c - 1)>> \o Split(SubSeq(str, c + 1, Len(str)))

(***************************************************************************)
(* String literals of the script.                                          *)
(***************************************************************************)
STR_sample == <<"s", "a", "m", "p", "l", "e">>
STR_fastq_1 == <<"f", "a", "s", "t", "q", "_", "1">>
STR_fastq_2 == <<"f", "a", "s", "t", "q", "_", "2">>
STR_bam == <<"b", "a", "m">>
STR_single_end == <<"s", "i", "n", "g", "l", "e", "_", "e", "n", "d">>
STR_idx == <<"i", "d", "x">>
EXT_fastq_gz == <<".", "f", "a", "s", "t", "q", ".", "g", "z">>
EXT_fq_gz == <<".", "f", "q", ".", "g", "z">>
EXT_bam == <<".", "b", "a", "m">>
CTX_Line == <<"L", "i", "n", "e">>
CTX_Sample == <<"S", "a", "m", "p", "l", "e", ":", SPACE>>
CTX_Samplesheet == <<"S", "a", "m", "p", "l", "e", "s", "h", "e", "e", "t", ":", SPACE>>
FLAG_PAIRED == <<"0">>
FLAG_SINGLE == <<"1">>
T_SUFFIX == <<"_", "T">>

\* the file_in argument
file_in == <<"i", "n", ".", "c", "s", "v">>

\* The head of the FASTQ branch (HEADER, MIN_COLS and the header check) is not
\* in the source file, which starts that branch at its loop; the two constants
\* and CheckFastqHeader follow the documented samplesheet contract and the
\* shape of the BAM branch.
FASTQ_HEADER == <<STR_sample, STR_fastq_1, STR_fastq_2>>
FASTQ_MIN_COLS == 2
BAM_HEADER == <<STR_sample, STR_bam>>
BAM_MIN_COLS == 2

(***************************************************************************)
(* print_error(error, context, context_str): the message printed before    *)
(* sys.exit(1).  error is the name of the message; the context is part of   *)
(* the message only when neither context nor context_str is empty.          *)
(***************************************************************************)
NoMessage == [error |-> "none", detail |-> FALSE, context |-> <<>>, context_str |-> <<>>]

print_error(error, context, context_str) ==
    IF context # <<>> /\ context_str # <<>>
    THEN [error |-> error, detail |-> TRUE,
          context |-> Strip(context, WHITESPACE),
          context_str |-> Strip(context_str, WHITESPACE)]
    ELSE [error |-> error, detail |-> FALSE, context |-> <<>>, context_str |-> <<>>]

\* print("ERROR: Please check samplesheet header -> {} != {}".format(...))
print_header_error(header, HEADER) ==
    [error |-> "header", detail |-> TRUE, context |-> Join(header), context_str |-> Join(HEADER)]

(***************************************************************************)
(* One data line.                                                          *)
(***************************************************************************)
\* [x.strip().strip('"') for x in line.strip().split(",")]
SplitLine(line) ==
    LET raw == Split(Strip(line, WHITESPACE))
    IN  [k \in 1..Len(raw) |-> Strip(Strip(raw[k], WHITESPACE), {QUOTE})]

\* [x.strip('"') for x in fin.readline().strip().split(",")]
SplitHeader(line) ==
    LET raw == Split(Strip(line, WHITESPACE))
    IN  [k \in 1..Len(raw) |-> Strip(raw[k], {QUOTE})]

\* header[: len(HEADER)] != HEADER
HeaderMismatch(header, HEADER) ==
    SubSeq(header, 1, IF Len(header) < Len(HEADER) THEN Len(header) ELSE Len(HEADER)) # HEADER

\* len([x for x in lspl if x])
NumCols(lspl) == Cardinality({k \in 1..Len(lspl) : lspl[k] # <<>>})

\* the extension checked before the spaces
FastqFileError_ExtensionFirst(fastq) ==
    IF fastq = <<>> THEN "ok"
    ELSE IF ~EndsWith(fastq, EXT_fastq_gz) /\ ~EndsWith(fastq, EXT_fq_gz) THEN "fastq_extension"
    ELSE IF ContainsSpace(fastq) THEN "fastq_spaces"
    ELSE "ok"

\* the checks of one FASTQ file name, in the order of the loop body
FastqFileError(fastq) ==
    IF fastq = <<>> THEN "ok"
    ELSE IF ContainsSpace(fastq) THEN "fastq_spaces"
    ELSE IF ~EndsWith(fastq, EXT_fastq_gz) /\ ~EndsWith(fastq, EXT_fq_gz) THEN "fastq_extension"
    ELSE "ok"

\* the checks of the BAM file name
BamFileError(bam) ==
    IF bam = <<>> THEN "ok"
    ELSE IF ContainsSpace(bam) THEN "bam_spaces"
    ELSE IF ~EndsWith(bam, EXT_bam) THEN "bam_extension"
    ELSE "ok"

\* the two flags exchanged
Classify_FlagsSwapped(sample, fastq_1, fastq_2) ==
    IF sample # <<>> /\ fastq_1 # <<>> /\ fastq_2 # <<>> THEN <<FLAG_SINGLE, fastq_1, fastq_2>>
    ELSE IF sample # <<>> /\ fastq_1 # <<>> /\ fastq_2 = <<>> THEN <<FLAG_PAIRED, fastq_1, fastq_2>>
    ELSE <<>>

\* Auto-detect paired-end/single-end: sample_info, or <<>> when the combination is invalid
Classify(sample, fastq_1, fastq_2) ==
    IF sample # <<>> /\ fastq_1 # <<>> /\ fastq_2 # <<>> THEN <<FLAG_PAIRED, fastq_1, fastq_2>>
    ELSE IF sample # <<>> /\ fastq_1 # <<>> /\ fastq_2 = <<>> THEN <<FLAG_SINGLE, fastq_1, fastq_2>>
    ELSE <<>>

\* sample in sample_mapping_dict and sample_info in sample_mapping_dict[sample]
IsDuplicate(dict, sample, sample_info) ==
    /\ sample \in DOMAIN dict
    /\ \E k \in 1..Len(dict[sample]) : dict[sample][k] = sample_info

\* sample_mapping_dict after the row is recorded
Record(dict, sample, sample_info) ==
    [k \in DOMAIN dict \cup {sample} |->
        IF k = sample
        THEN (IF sample \in DOMAIN dict THEN Append(dict[sample], sample_info)
              ELSE <<sample_info>>)
        ELSE dict[k]]

RowResult(error, sample, sample_info) ==
    [error |-> error, sample |-> sample, sample_info |-> sample_info]

\* the body of "for line in fin" in FASTQ mode: the first print_error reached, or "ok"
CheckFastqLine(line, dict) ==
    LET lspl == SplitLine(line)
    IN  IF Len(lspl) < Len(FASTQ_HEADER) THEN RowResult("columns", <<>>, <<>>)
        ELSE IF NumCols(lspl) < FASTQ_MIN_COLS THEN RowResult("populated", <<>>, <<>>)
        ELSE LET sample == ReplaceSpaces(lspl[1])
                 fastq_1 == lspl[2]
                 fastq_2 == lspl[3]
                 sample_info == Classify(sample, fastq_1, fastq_2)
             IN  IF sample = <<>> THEN RowResult("sample", sample, <<>>)
                 ELSE IF FastqFileError(fastq_1) # "ok"
                      THEN RowResult(FastqFileError(fastq_1), sample, <<>>)
                 ELSE IF FastqFileError(fastq_2) # "ok"
                      THEN RowResult(FastqFileError(fastq_2), sample, <<>>)
                 ELSE IF sample_info = <<>> THEN RowResult("combination", sample, <<>>)
                 ELSE IF IsDuplicate(dict, sample, sample_info)
                      THEN RowResult("duplicate", sample, sample_info)
                 ELSE RowResult("ok", sample, sample_info)

\* the body of "for line in fin" in BAM mode
CheckBamLine(line, dict) ==
    LET lspl == SplitLine(line)
    IN  IF Len(lspl) < Len(BAM_HEADER) THEN RowResult("columns", <<>>, <<>>)
        ELSE IF NumCols(lspl) < BAM_MIN_COLS THEN RowResult("populated", <<>>, <<>>)
        ELSE LET sample == ReplaceSpaces(lspl[1])
                 bam == lspl[2]
                 sample_info == <<FLAG_SINGLE, bam>>
             IN  IF sample = <<>> THEN RowResult("sample", sample, <<>>)
                 ELSE IF BamFileError(bam) # "ok" THEN RowResult(BamFileError(bam), sample, <<>>)
                 ELSE IF IsDuplicate(dict, sample, sample_info)
                      THEN RowResult("duplicate", sample, sample_info)
                 ELSE RowResult("ok", sample, sample_info)

(***************************************************************************)
(* Writing the validated samplesheet.                                      *)
(***************************************************************************)
FastqOutHeader == Join(<<STR_sample, STR_single_end, STR_fastq_1, STR_fastq_2>>)
BamOutHeader == Join(<<STR_sample, STR_idx, STR_bam>>)

\* only the last run compared with the first
SameDatatype_LastOnly(runs) == runs[Len(runs)][1] = runs[1][1]

\* all(x[0] == sample_mapping_dict[sample][0][0] for x in sample_mapping_dict[sample])
SameDatatype(runs) == \A k \in 1..Len(runs) : runs[k][1] = runs[1][1]

\* the replicate suffix numbered from idx instead of idx + 1
FastqOutLines_FromZero(sample, runs) ==
    [k \in 1..Len(runs) |-> Join(<<sample \o T_SUFFIX \o FormatInt(k - 1)>> \o runs[k])]

\* ",".join(["{}_T{}".format(sample, idx + 1)] + val) for idx, val in enumerate(runs)
FastqOutLines(sample, runs) ==
    [k \in 1..Len(runs) |-> Join(<<sample \o T_SUFFIX \o FormatInt(k)>> \o runs[k])]

\* ",".join(["{}".format(sample)] + val) for idx, val in enumerate(runs)
BamOutLines(sample, runs) ==
    [k \in 1..Len(runs) |-> Join(<<sample>> \o runs[k])]

(***************************************************************************)
(* The inputs: lines of file_in, "\n" included.                            *)
(***************************************************************************)
\* A B,a.fq.gz,b.fq.gz
Line_PairedAB == <<"A", SPACE, "B", COMMA, "a", ".", "f", "q", ".", "g", "z", COMMA, "b", ".", "f", "q", ".", "g", "z", NEWLINE>>
\* A_B,a.fq.gz,b.fq.gz
Line_PairedA_B == <<"A", "_", "B", COMMA, "a", ".", "f", "q", ".", "g", "z", COMMA, "b", ".", "f", "q", ".", "g", "z", NEWLINE>>
\* A_B,b.fastq.gz,a.fq.gz
Line_PairedA_B2 == <<"A", "_", "B", COMMA, "b", ".", "f", "a", "s", "t", "q", ".", "g", "z", COMMA, "a", ".", "f", "q", ".", "g", "z", NEWLINE>>
\* A_B,b.fastq.gz,
Line_SingleA_B == <<"A", "_", "B", COMMA, "b", ".", "f", "a", "s", "t", "q", ".", "g", "z", COMMA, NEWLINE>>
\* A,a.fq.gz,
Line_SingleA1 == <<"A", COMMA, "a", ".", "f", "q", ".", "g", "z", COMMA, NEWLINE>>
\*  "B", a.fq.gz,"b.fq.gz" ,x
Line_QuotedB == <<SPACE, QUOTE, "B", QUOTE, COMMA, SPACE, "a", ".", "f", "q", ".", "g", "z", COMMA, QUOTE, "b", ".", "f", "q", ".", "g", "z", QUOTE, SPACE, COMMA, "x", NEWLINE>>
\* ,a.fq.gz,b.fq.gz
Line_NoSample == <<COMMA, "a", ".", "f", "q", ".", "g", "z", COMMA, "b", ".", "f", "q", ".", "g", "z", NEWLINE>>
\* A,a b.txt,
Line_SpaceTxt == <<"A", COMMA, "a", SPACE, "b", ".", "t", "x", "t", COMMA, NEWLINE>>
\* A,a.txt,a b.fq.gz
Line_TxtThenSpace == <<"A", COMMA, "a", ".", "t", "x", "t", COMMA, "a", SPACE, "b", ".", "f", "q", ".", "g", "z", NEWLINE>>
\* A,a.fq.gz,b.txt
Line_SecondTxt == <<"A", COMMA, "a", ".", "f", "q", ".", "g", "z", COMMA, "b", ".", "t", "x", "t", NEWLINE>>
\* A,,b.fq.gz
Line_OnlySecond == <<"A", COMMA, COMMA, "b", ".", "f", "q", ".", "g", "z", NEWLINE>>
\* ,,a b.txt
Line_OnePopulated == <<COMMA, COMMA, "a", SPACE, "b", ".", "t", "x", "t", NEWLINE>>
Line_Blank == <<NEWLINE>>
\* A B,a.bam
Line_BamAB == <<"A", SPACE, "B", COMMA, "a", ".", "b", "a", "m", NEWLINE>>
\* A_B,a.bam
Line_BamA_B == <<"A", "_", "B", COMMA, "a", ".", "b", "a", "m", NEWLINE>>
\* A_B,b.bam
Line_BamA_B2 == <<"A", "_", "B", COMMA, "b", ".", "b", "a", "m", NEWLINE>>
\*  "B", "b.bam" ,x
Line_BamQuotedB == <<SPACE, QUOTE, "B", QUOTE, COMMA, SPACE, QUOTE, "b", ".", "b", "a", "m", QUOTE, SPACE, COMMA, "x", NEWLINE>>
\* ,a b.txt,x
Line_BamNoSample == <<COMMA, "a", SPACE, "b", ".", "t", "x", "t", COMMA, "x", NEWLINE>>
\* A,a b.txt
Line_BamSpaceTxt == <<"A", COMMA, "a", SPACE, "b", ".", "t", "x", "t", NEWLINE>>
\* A,a.txt
Line_BamTxt == <<"A", COMMA, "a", ".", "t", "x", "t", NEWLINE>>
\* ,a b.txt
Line_BamOnePopulated == <<COMMA, "a", SPACE, "b", ".", "t", "x", "t", NEWLINE>>
\* A,,x
Line_BamNoFile == <<"A", COMMA, COMMA, "x", NEWLINE>>

FastqLines ==
    {Line_PairedAB,
     Line_PairedA_B,
     Line_PairedA_B2,
     Line_SingleA_B,
     Line_SingleA1,
     Line_QuotedB,
     Line_NoSample,
     Line_SpaceTxt,
     Line_TxtThenSpace,
     Line_SecondTxt,
     Line_OnlySecond,
     Line_OnePopulated,
     Line_Blank}

BamLines ==
    {Line_BamAB,
     Line_BamA_B,
     Line_BamA_B2,
     Line_BamQuotedB,
     Line_BamNoSample,
     Line_BamSpaceTxt,
     Line_BamTxt,
     Line_BamOnePopulated,
     Line_BamNoFile, Line_Blank}

OtherLines == {Line_PairedAB, Line_BamAB, Line_Blank}

\* sample,fastq_1,fastq_2
Header_Fastq == <<"s", "a", "m", "p", "l", "e", COMMA, "f", "a", "s", "t", "q", "_", "1", COMMA, "f", "a", "s", "t", "q", "_", "2", NEWLINE>>
\* sample,bam
Header_Bam == <<"s", "a", "m", "p", "l", "e", COMMA, "b", "a", "m", NEWLINE>>
\* "sample","bam",x
Header_BamQuoted == <<QUOTE, "s", "a", "m", "p", "l", "e", QUOTE, COMMA, QUOTE, "b", "a", "m", QUOTE, COMMA, "x", NEWLINE>>

Headers == {Header_Fastq, Header_Bam, Header_BamQuoted}

Formats == {"FASTQ", "BAM", "XML", "fastq", "bam"}

LinesOf(format) ==
    IF format = "FASTQ" THEN FastqLines ELSE IF format = "BAM" THEN BamLines ELSE OtherLines

\* the sequences over S of length at most n
SeqsUpTo(S, n) == UNION {[1..k -> S] : k \in 0..n}

Init ==
    /\ input_format \in Formats
    /\ header_line \in Headers
    /\ lines \in SeqsUpTo(LinesOf(input_format), MaxRows)
    /\ pc = "start"
    /\ i = 0
    /\ header_read = FALSE
    /\ sample_mapping_dict = <<>>
    /\ s = 0
    /\ file_exists = FALSE
    /\ fout = <<>>
    /\ printed = NoMessage
    /\ err_line = 0

(***************************************************************************)
(* check_samplesheet.                                                      *)
(***************************************************************************)
\* sys.exit(1) after a message
Exit(message, line_no) ==
    /\ printed' = message
    /\ err_line' = line_no
    /\ pc' = "done"

\* the format compared without regard to case
IsBam_IgnoreCase(format) == format \in {"BAM", "bam"}

\* the dispatch on input_format
IsFastq(format) == format = "FASTQ"
IsBam(format) == format = "BAM"

\* if input_format == "FASTQ": the header check
CheckFastqHeader ==
    /\ pc = "start"
    /\ IsFastq(input_format)
    /\ header_read' = TRUE
    /\ LET header == SplitHeader(header_line)
       IN  IF HeaderMismatch(header, FASTQ_HEADER)
           THEN Exit(print_header_error(header, FASTQ_HEADER), 0)
           ELSE pc' = "rows" /\ UNCHANGED <<printed, err_line>>
    /\ UNCHANGED <<input_format, header_line, lines, i, sample_mapping_dict, s,
                   file_exists, fout>>

\* elif input_format == "BAM": the header check
CheckBamHeader ==
    /\ pc = "start"
    /\ ~IsFastq(input_format)
    /\ IsBam(input_format)
    /\ header_read' = TRUE
    /\ LET header == SplitHeader(header_line)
       IN  IF HeaderMismatch(header, BAM_HEADER)
           THEN Exit(print_header_error(header, BAM_HEADER), 0)
           ELSE pc' = "rows" /\ UNCHANGED <<printed, err_line>>
    /\ UNCHANGED <<input_format, header_line, lines, i, sample_mapping_dict, s,
                   file_exists, fout>>

\* else: print_error("INPUT_FORMAT needs to be either 'FASTQ' or 'BAM'")
InvalidFormat ==
    /\ pc = "start"
    /\ ~IsFastq(input_format)
    /\ ~IsBam(input_format)
    /\ Exit(print_error("format", CTX_Line, <<>>), 0)
    /\ UNCHANGED <<input_format, header_line, lines, i, header_read,
                   sample_mapping_dict, s, file_exists, fout>>

\* one iteration of "for line in fin"
ProcessLine(result) ==
    /\ i' = i + 1
    /\ IF result.error # "ok"
       THEN /\ Exit(print_error(result.error, CTX_Line, lines[i + 1]), i + 1)
            /\ UNCHANGED sample_mapping_dict
       ELSE /\ sample_mapping_dict' =
                   Record(sample_mapping_dict, result.sample, result.sample_info)
            /\ UNCHANGED <<pc, printed, err_line>>
    /\ UNCHANGED <<input_format, header_line, lines, header_read, s, file_exists, fout>>

FastqLine ==
    /\ pc = "rows"
    /\ IsFastq(input_format)
    /\ i < Len(lines)
    /\ ProcessLine(CheckFastqLine(lines[i + 1], sample_mapping_dict))

BamLine ==
    /\ pc = "rows"
    /\ IsBam(input_format)
    /\ i < Len(lines)
    /\ ProcessLine(CheckBamLine(lines[i + 1], sample_mapping_dict))

\* the mapping compared with 1 instead of 0
HasEntries_MoreThanOne(dict) == Cardinality(DOMAIN dict) > 1

\* if len(sample_mapping_dict) > 0
HasEntries(dict) == Cardinality(DOMAIN dict) > 0

\* else: print_error("No entries to process!", "Samplesheet: {}".format(file_in))
NoEntries ==
    /\ pc = "rows"
    /\ i = Len(lines)
    /\ ~HasEntries(sample_mapping_dict)
    /\ Exit(print_error("no_entries", CTX_Samplesheet \o file_in, <<>>), 0)
    /\ UNCHANGED <<input_format, header_line, lines, i, header_read,
                   sample_mapping_dict, s, file_exists, fout>>

\* with open(file_out, "w") as fout: the header line
OpenOutput ==
    /\ pc = "rows"
    /\ i = Len(lines)
    /\ HasEntries(sample_mapping_dict)
    /\ file_exists' = TRUE
    /\ fout' = IF IsFastq(input_format) THEN <<FastqOutHeader>> ELSE <<BamOutHeader>>
    /\ pc' = "write"
    /\ UNCHANGED <<input_format, header_line, lines, i, header_read,
                   sample_mapping_dict, s, printed, err_line>>

\* the position after one sample of the loop
AfterSample == IF s + 1 = Cardinality(DOMAIN sample_mapping_dict) THEN "done" ELSE "write"

\* one iteration of "for sample in sorted(sample_mapping_dict.keys())", FASTQ
WriteFastqSample ==
    /\ pc = "write"
    /\ IsFastq(input_format)
    /\ LET sample == Sorted(DOMAIN sample_mapping_dict)[s + 1]
           runs == sample_mapping_dict[sample]
       IN  IF ~SameDatatype(runs)
           THEN /\ Exit(print_error("datatype", CTX_Sample \o sample, <<>>), 0)
                /\ UNCHANGED <<fout, s>>
           ELSE /\ fout' = fout \o FastqOutLines(sample, runs)
                /\ s' = s + 1
                /\ pc' = AfterSample
                /\ UNCHANGED <<printed, err_line>>
    /\ UNCHANGED <<input_format, header_line, lines, i, header_read,
                   sample_mapping_dict, file_exists>>

\* one iteration of "for sample in sorted(sample_mapping_dict.keys())", BAM
WriteBamSample ==
    /\ pc = "write"
    /\ IsBam(input_format)
    /\ LET sample == Sorted(DOMAIN sample_mapping_dict)[s + 1]
           runs == sample_mapping_dict[sample]
       IN  /\ fout' = fout \o BamOutLines(sample, runs)
           /\ s' = s + 1
           /\ pc' = AfterSample
    /\ UNCHANGED <<input_format, header_line, lines, i, header_read,
                   sample_mapping_dict, file_exists, printed, err_line>>

Next ==
    \/ CheckFastqHeader
    \/ CheckBamHeader
    \/ InvalidFormat
    \/ FastqLine
    \/ BamLine
    \/ NoEntries
    \/ OpenOutput
    \/ WriteFastqSample
    \/ WriteBamSample

Spec == Init /\ [][Next]_vars

(***************************************************************************)
(* Input rows as the claims speak of them: for each data line its fields,   *)
(* its sanitized sample name and its file columns; the rank of a line among *)
(* the lines of its sample, and the place of its row in an output sorted by *)
(* sample.                                                                  *)
(***************************************************************************)
Rows ==
    [n \in 1..Len(lines) |->
        LET f == SplitLine(lines[n])
        IN  [fields |-> f,
             name |-> ReplaceSpaces(f[1]),
             file_1 |-> IF Len(f) >= 2 THEN f[2] ELSE <<>>,
             file_2 |-> IF Len(f) >= 3 THEN f[3] ELSE <<>>]]
Rank(R, n) == Cardinality({m \in 1..n : R[m].name = R[n].name})
Place(R, n) == Cardinality({m \in 1..Len(R) : StrLess(R[m].name, R[n].name)}) + Rank(R, n)
IsPaired(row) == row.file_1 # <<>> /\ row.file_2 # <<>>
ExpectedFlag(row) == IF IsPaired(row) THEN <<"0">> ELSE <<"1">>

Done == pc = "done"
Failed == Done /\ printed.error # "none"
Succeeded == Done /\ printed.error = "none"
\* every data line went through the loop and was recorded
AllMapped == i = Len(lines) /\ err_line = 0 /\ pc \in {"write", "done"}
NoOutputFile == ~file_exists /\ fout = <<>>

\* C1: FASTQ mode, every row valid: one output row per input row, grouped by
\* sanitized sample name, groups in lexicographic order, rows of a group in
\* input order, the k-th row of a group written as <sample>_T<k>, flag,
\* fastq_1, fastq_2.
C1_FastqOutput ==
    (input_format = "FASTQ" /\ Succeeded) =>
        LET R == Rows
        IN  /\ Len(fout) = Len(lines) + 1
            /\ fout[1] = FastqOutHeader
            /\ \A n \in 1..Len(lines) :
                  Split(fout[1 + Place(R, n)]) =
                      <<R[n].name \o <<"_", "T">> \o FormatInt(Rank(R, n)),
                        ExpectedFlag(R[n]), R[n].file_1, R[n].file_2>>

\* raw names 'A B' and 'A_B' in one group, and a sample that sorts first met later
C1_Witness ==
    /\ input_format = "FASTQ" /\ Succeeded
    /\ Len(lines) = MaxRows
    /\ LET R == Rows
       IN  /\ \E n, m \in 1..Len(lines) :
                 n < m /\ R[n].name = R[m].name /\ R[n].fields[1] # R[m].fields[1]
           /\ \E n, m \in 1..Len(lines) : n < m /\ StrLess(R[m].name, R[n].name)

\* C2: BAM mode: every output row is sample,idx,bam with the unsuffixed
\* sanitized sample name and idx the 1-based position of the row within its
\* sample; samples in lexicographic order.
C2_BamOutput ==
    (input_format = "BAM" /\ Succeeded) =>
        LET R == Rows
        IN  /\ Len(fout) = Len(lines) + 1
            /\ fout[1] = BamOutHeader
            /\ \A n \in 1..Len(lines) :
                  Split(fout[1 + Place(R, n)]) =
                      <<R[n].name, FormatInt(Rank(R, n)), R[n].file_1>>

\* C3: FASTQ mode: when two rows mapped to one sample differ in pairing, the
\* run ends in the datatype error, whatever the order and the other samples;
\* in a successful run all output rows of one sample carry the same flag.
C3_DatatypeConsistency ==
    (input_format = "FASTQ" /\ AllMapped /\ Done) =>
        LET R == Rows
        IN  /\ (\E n, m \in 1..Len(lines) :
                    R[n].name = R[m].name /\ IsPaired(R[n]) # IsPaired(R[m]))
                  => printed.error = "datatype"
            /\ Succeeded =>
                  \A n, m \in 1..Len(lines) :
                      R[n].name = R[m].name =>
                          Split(fout[1 + Place(R, n)])[2] = Split(fout[1 + Place(R, m)])[2]

\* a mixed sample that is neither first nor alone, single-end row first
C3_Witness ==
    /\ input_format = "FASTQ" /\ AllMapped /\ Done
    /\ printed.error = "datatype"
    /\ LET R == Rows
       IN  \E n, m \in 1..Len(lines) :
               n < m /\ R[n].name = R[m].name /\ ~IsPaired(R[n]) /\ IsPaired(R[m])
    /\ Cardinality(DOMAIN sample_mapping_dict) > 1
    /\ Len(fout) > 1

\* the (classification flag, file paths) tuple of a row
Tuple(row) ==
    IF input_format = "FASTQ" THEN <<ExpectedFlag(row), row.file_1, row.file_2>>
    ELSE <<row.file_1>>
\* line n passes every check of its own row, duplicates aside
PassesOwnChecks(n) ==
    IF input_format = "FASTQ" THEN CheckFastqLine(lines[n], <<>>).error = "ok"
    ELSE CheckBamLine(lines[n], <<>>).error = "ok"
Repeats(R, n) == \E m \in 1..(n - 1) : R[m].name = R[n].name /\ Tuple(R[m]) = Tuple(R[n])
\* what tells the output row of line n from the other rows of its sample
OutputKey(R, n) ==
    IF input_format = "FASTQ" THEN SubSeq(Split(fout[1 + Place(R, n)]), 1, 1)
    ELSE SubSeq(Split(fout[1 + Place(R, n)]), 1, 2)

\* C4, the duplicate detection alone: the duplicate-rows error is raised at a
\* row exactly when its tuple is already recorded for its sanitized sample.
C4_DuplicateDetection ==
    (input_format \in {"FASTQ", "BAM"} /\ i > 0) =>
        LET R == Rows
        IN  /\ \A n \in 1..i :
                  (Repeats(R, n) /\ (err_line = 0 \/ err_line >= n) /\ PassesOwnChecks(n))
                      => (Done /\ printed.error = "duplicate" /\ err_line = n)
            /\ (Done /\ printed.error = "duplicate") => Repeats(R, err_line)

\* C4: in both modes a row whose tuple is already recorded for its sample
\* fails as a duplicate at that row; two rows of one sample with different
\* paths are both accepted and receive distinct suffixes; the same paths
\* under another sample are no duplicate.
C4_Duplicates ==
    /\ C4_DuplicateDetection
    /\ (input_format \in {"FASTQ", "BAM"} /\ Succeeded) =>
          LET R == Rows
          IN  \A n, m \in 1..Len(lines) :
                  (n # m /\ R[n].name = R[m].name) => OutputKey(R, n) # OutputKey(R, m)

\* C5: a run that ends in a fatal error of any kind has not created or
\* written the output file.
C5_NoPartialOutput == Failed => NoOutputFile

RowErrors ==
    {"columns", "populated", "sample", "fastq_spaces", "fastq_extension",
     "bam_spaces", "bam_extension", "combination", "duplicate"}
\* the printed message holds the text
Mentions(message, text) ==
    /\ message.detail
    /\ \/ message.context_str = text
       \/ EndsWith(message.context, text)

\* C6: every fatal error carries its context: a row-level error the offending
\* line, the datatype error the offending sample, the no-entries error the
\* input file.
C6_ErrorContext ==
    Failed =>
        /\ printed.error \in RowErrors =>
              Mentions(printed, Strip(lines[err_line], WHITESPACE))
        /\ printed.error = "datatype" =>
              \E sample \in DOMAIN sample_mapping_dict :
                  /\ ~SameDatatype(sample_mapping_dict[sample])
                  /\ Mentions(printed, sample)
        /\ printed.error = "no_entries" => Mentions(printed, file_in)

\* C6, the row-level part alone: a row-level error names its line.
C6_RowErrorContext ==
    (Failed /\ printed.error \in RowErrors) =>
        /\ err_line = i
        /\ Mentions(printed, Strip(lines[err_line], WHITESPACE))

\* C7: a mode other than exactly FASTQ or BAM ends in the invalid-format
\* error before the header or any row is checked, and writes no output.
C7_InvalidFormat ==
    (input_format \notin {"FASTQ", "BAM"}) =>
        /\ pc \in {"start", "done"}
        /\ ~header_read /\ i = 0 /\ NoOutputFile
        /\ Done => printed.error = "format"

C7_Witness ==
    /\ input_format = "bam" /\ Done
    /\ header_line = Header_Bam
    /\ Len(lines) > 0

\* C8: valid mode and header: the run ends in the no-entries error exactly
\* when there is no data line; with a data line it fails otherwise or
\* succeeds with a non-empty output.
C8_NoEntries ==
    (input_format \in {"FASTQ", "BAM"} /\ Done /\ printed.error # "header") =>
        /\ printed.error = "no_entries" <=> Len(lines) = 0
        /\ printed.error = "no_entries" => NoOutputFile
        /\ (Len(lines) > 0 /\ Succeeded) => (file_exists /\ Len(fout) > 1)

C8_Witness ==
    /\ input_format \in {"FASTQ", "BAM"} /\ Done
    /\ printed.error = "no_entries"
    /\ header_read

BadExtension(file, exts) == file # <<>> /\ \A e \in exts : ~EndsWith(file, e)
HasSpace(file) == \E k \in 1..Len(file) : file[k] = " "

\* the checks of data line n in the order the claim gives, each with whether it fails
OrderedChecks(R, n) ==
    LET row == R[n]
        populated == Cardinality({k \in 1..Len(row.fields) : row.fields[k] # <<>>})
    IN  IF input_format = "FASTQ"
        THEN << <<"columns", Len(row.fields) < 3>>,
                <<"populated", populated < 2>>,
                <<"sample", row.name = <<>> >>,
                <<"fastq_spaces", HasSpace(row.file_1)>>,
                <<"fastq_extension", BadExtension(row.file_1, {EXT_fastq_gz, EXT_fq_gz})>>,
                <<"fastq_spaces", HasSpace(row.file_2)>>,
                <<"fastq_extension", BadExtension(row.file_2, {EXT_fastq_gz, EXT_fq_gz})>>,
                <<"combination", row.file_1 = <<>> >>,
                <<"duplicate", Repeats(R, n)>> >>
        ELSE << <<"columns", Len(row.fields) < 2>>,
                <<"populated", populated < 2>>,
                <<"sample", row.name = <<>> >>,
                <<"bam_spaces", HasSpace(row.file_1)>>,
                <<"bam_extension", BadExtension(row.file_1, {EXT_bam})>>,
                <<"duplicate", Repeats(R, n)>> >>

\* the name of the first failing check of line n, or "ok"
FirstFailure(R, n) ==
    LET checks == OrderedChecks(R, n)
        failing == {k \in 1..Len(checks) : checks[k][2]}
    IN  IF failing = {} THEN "ok"
        ELSE checks[CHOOSE k \in failing : \A j \in failing : k <= j][1]

\* per data line the first failing check
Verdicts == LET R == Rows IN [n \in 1..Len(lines) |-> FirstFailure(R, n)]
\* the first offending data line, 0 if there is none
FirstOffender(V) ==
    LET bad == {n \in 1..Len(V) : V[n] # "ok"}
    IN  IF bad = {} THEN 0 ELSE CHOOSE n \in bad : \A m \in bad : n <= m

\* C9: rows are checked in input order and, within a row, in the order column
\* count, populated count, sample name, file names (fastq_1 before fastq_2,
\* spaces before extension), pairing, duplicate; the run reports the earliest
\* failing check of the first offending row and evaluates nothing after it.
C9_FirstViolation ==
    (input_format \in {"FASTQ", "BAM"} /\ header_read /\ printed.error # "header") =>
        LET V == Verdicts
            first == FirstOffender(V)
        IN  /\ i <= Len(lines)
            /\ first # 0 => i <= first
            /\ err_line # 0 =>
                  /\ Done
                  /\ err_line = first
                  /\ i = err_line
                  /\ printed.error = V[err_line]
                  /\ NoOutputFile
            /\ (Done /\ first # 0) => err_line = first
            /\ (Done /\ err_line = 0) => printed.error \notin RowErrors

\* a line failing two checks at once, after a line that passed, before a bad line
C9_Witness ==
    /\ input_format = "FASTQ" /\ Done
    /\ err_line > 1
    /\ LET R == Rows
           checks == OrderedChecks(R, err_line)
       IN  /\ Cardinality({k \in 1..Len(checks) : checks[k][2]}) > 1
           /\ \E n \in (err_line + 1)..Len(lines) : FirstFailure(R, n) # "ok"

\* C10: FASTQ pairing: sample and fastq_1 with empty fastq_2 is recorded with
\* flag 1, sample, fastq_1 and fastq_2 with flag 0, any other combination ends
\* in the invalid-combination error and records nothing; the flag written for
\* a row is the flag recorded for it.
C10_Pairing ==
    (input_format = "FASTQ" /\ i > 0) =>
        LET R == Rows
        IN  /\ \A n \in 1..i :
                  n # err_line =>
                      /\ R[n].file_1 # <<>>
                      /\ sample_mapping_dict[R[n].name][Rank(R, n)] =
                            <<(IF R[n].file_2 = <<>> THEN <<"1">> ELSE <<"0">>),
                              R[n].file_1, R[n].file_2>>
            /\ err_line # 0 =>
                  /\ printed.error = "combination" => R[err_line].file_1 = <<>>
                  /\ (R[err_line].file_1 = <<>> /\ printed.error \notin
                          {"columns", "populated", "sample", "fastq_spaces", "fastq_extension"})
                        => printed.error = "combination"
                  /\ \A key \in DOMAIN sample_mapping_dict :
                        Len(sample_mapping_dict[key]) =
                            Cardinality({m \in 1..(err_line - 1) : R[m].name = key})
            /\ AllMapped =>
                  \A n \in 1..Len(lines) :
                      1 + Place(R, n) <= Len(fout) =>
                          Split(fout[1 + Place(R, n)])[2] =
                              sample_mapping_dict[R[n].name][Rank(R, n)][1]

\* a successful run that wrote single-end and paired-end rows
C10_Witness ==
    /\ input_format = "FASTQ" /\ Succeeded
    /\ LET R == Rows IN \E n, m \in 1..Len(lines) : IsPaired(R[n]) /\ ~IsPaired(R[m])

====
